---- MODULE Spec2Model ----
(***************************************************************************)
(* Agile Budget Tracker: the REST resource layer (backend/app/views.py),   *)
(* its serializers (backend/app/serializers.py) and the framework settings *)
(* (backend/project/settings.py), over the four tables User, Project,      *)
(* Sprint and SprintMetric.                                                *)
(*                                                                         *)
(* Money is counted in cents (two decimal places), dates in days, and a    *)
(* serialized roi in units of 10^-4 (the four places get_roi rounds to).   *)
(* An optional value (Python None / JSON null) is the empty set, a present *)
(* value x is {x}.                                                         *)
(*                                                                         *)
(* req and resp are the request a worker has answered and its response;    *)
(* inflight is the SprintMetric write a second worker has validated and    *)
(* not yet saved.                                                          *)
(***************************************************************************)
EXTENDS Integers, Sequences, FiniteSets, TLC

VARIABLES users, projects, sprints, metrics, nextId, writes, req, resp,
          inflight

vars == <<users, projects, sprints, metrics, nextId, writes, req, resp,
          inflight>>
db == <<users, projects, sprints, metrics, nextId>>

---------------------------------------------------------------------------
(* Bounds of the model                                                     *)

MaxWrites == 3
MaxDate == 2
MaxPage == 2
MaxRows == 21
MaxRoiRows == 2

---------------------------------------------------------------------------
(* Optional values and small helpers                                       *)

None == {}
Some(x) == {x}
The(o) == CHOOSE x \in o : TRUE

Abs(x) == IF x < 0 THEN 0 - x ELSE x
Min(a, b) == IF a < b THEN a ELSE b

\* dict.get(key): None when the key is absent
Get(data, key) == IF key \in DOMAIN data THEN Some(data[key]) ELSE None

\* Python truthiness of the result of dict.get for a date: None is falsy,
\* every datetime.date is truthy
Truthy(o) == o # None

RECURSIVE Filter(_, _)
\* the rows of a table whose index is in keep, in table order
Filter(tbl, keep) ==
    IF tbl = <<>> THEN <<>>
    ELSE LET n == Len(tbl)
             front == Filter(SubSeq(tbl, 1, n - 1), keep)
         IN  IF n \in keep THEN Append(front, tbl[n]) ELSE front

RECURSIVE Reverse(_)
Reverse(s) == IF s = <<>> THEN <<>> ELSE Append(Reverse(Tail(s)), Head(s))

Ids(tbl) == {tbl[i].id : i \in DOMAIN tbl}
Row(tbl, id) == tbl[CHOOSE i \in DOMAIN tbl : tbl[i].id = id]

---------------------------------------------------------------------------
(* SprintMetricSerializer.get_roi                                          *)

ROUND_DIGITS == 4

RECURSIVE Pow10(_)
Pow10(k) == IF k = 0 THEN 1 ELSE 10 * Pow10(k - 1)

RECURSIVE Pow2(_)
Pow2(k) == IF k = 0 THEN 1 ELSE 2 * Pow2(k - 1)

RECURSIVE Pow2Mod(_, _)
Pow2Mod(k, m) == IF k = 0 THEN 1 % m ELSE (2 * Pow2Mod(k - 1, m)) % m

RECURSIVE Log2Floor(_)
\* floor(log2(x)) for an integer x >= 1
Log2Floor(x) == IF x < 2 THEN 0 ELSE 1 + Log2Floor(x \div 2)

RECURSIVE ShiftUp(_, _)
\* the least j >= 1 with m * 2^j >= bound, for 0 < m < bound
ShiftUp(m, bound) == IF 2 * m >= bound THEN 1 ELSE 1 + ShiftUp(2 * m, bound)

RECURSIVE DivDigits(_, _, _, _)
\* long division: k more decimal digits of (q*c + r) / c
DivDigits(q, r, c, k) ==
    IF k = 0 THEN <<q, r>>
    ELSE DivDigits(q * 10 + ((r * 10) \div c), (r * 10) % c, c, k - 1)

\* obj.estimated_business_value - obj.cost, in cents (Decimal subtraction
\* is exact)
Gain(obj) == obj.estimated_business_value - obj.cost

\* float(roi_value) against the exact quotient t = m / (2 * 10^ROUND_DIGITS),
\* the midpoint between two neighbouring 4-place values: -1 when the nearest
\* IEEE double lies below t, +1 when it lies above, 0 when t is a double.
\* With 2 * 10^4 = 2^5 * 5^4 the 53-bit significand of t is
\* m * 2^(e-5) / 5^4 for the exponent e that brings it into [2^52, 2^53).
FloatSide(m) ==
    LET den  == 2 * Pow10(ROUND_DIGITS)
        odd  == den \div Pow2(ROUND_DIGITS + 1)
        k    == IF m >= den THEN Log2Floor(m \div den) ELSE 0 - ShiftUp(m, den)
        e    == 52 - k
        rmod == ((m % odd) * Pow2Mod(e - (ROUND_DIGITS + 1), odd)) % odd
    IN  IF rmod = 0 THEN 0 ELSE IF 2 * rmod < odd THEN 0 - 1 ELSE 1

\* round(float(x), 4) for x = a / c >= 0, as a count of 10^-4 units. Python
\* rounds the double's exact binary value, half to even: off a midpoint the
\* double is on the same side as x; at a midpoint the side float() fell on
\* decides, and an exactly represented midpoint goes to the even neighbour.
RoundHalf(a, c) ==
    LET d == DivDigits(a \div c, a % c, c, ROUND_DIGITS)
        q == d[1]
        r == d[2]
        side == FloatSide(2 * q + 1)
    IN  IF 2 * r < c THEN q
        ELSE IF 2 * r > c THEN q + 1
        ELSE IF side < 0 THEN q
        ELSE IF side > 0 THEN q + 1
        ELSE IF q % 2 = 0 THEN q ELSE q + 1

\* get_roi truncating to 4 places instead of rounding
get_roi_wrong_round(obj) ==
    IF obj.cost = 0 THEN None
    ELSE LET g == Gain(obj)
             d == DivDigits(Abs(g) \div obj.cost, Abs(g) % obj.cost, obj.cost,
                            ROUND_DIGITS)
         IN  Some((IF g < 0 THEN 0 - 1 ELSE 1) * d[1])

\* get_roi dividing the business value, not the gain, by the cost
get_roi_no_subtract(obj) ==
    IF obj.cost = 0 THEN None
    ELSE Some(RoundHalf(obj.estimated_business_value, obj.cost))

\* get_roi answering 0 for zero cost
get_roi_no_guard(obj) ==
    IF obj.cost = 0 THEN Some(0)
    ELSE LET g == Gain(obj)
         IN  Some((IF g < 0 THEN 0 - 1 ELSE 1) * RoundHalf(Abs(g), obj.cost))

\* the serialized roi: None for zero cost, else the rounded quotient
get_roi(obj) ==
    IF obj.cost = 0 THEN None
    ELSE LET g == Gain(obj)
         IN  Some((IF g < 0 THEN 0 - 1 ELSE 1) * RoundHalf(Abs(g), obj.cost))

\* SprintMetric.roi, the model's computed property: None for zero cost, else
\* the unrounded quotient, kept as the pair <<numerator, denominator>>
roi(obj) == IF obj.cost = 0 THEN None ELSE Some(<<Gain(obj), obj.cost>>)

\* roi > 0.5 on the unrounded quotient n / c, c > 0
GreaterThanHalf(r) == 2 * r[1] > r[2]

---------------------------------------------------------------------------
(* Serializers                                                             *)

\* UserSerializer: password excluded
UserRepr(u) == [id |-> u.id, role |-> u.role]

\* ProjectSerializer with get_sprint_count: obj.sprints.count()
get_sprint_count(p) == Cardinality({i \in DOMAIN sprints : sprints[i].project = p.id})
ProjectRepr(p) == [id |-> p.id, sprint_count |-> get_sprint_count(p)]

\* SprintMetricSerializer: the stored fields and the computed roi
MetricRepr(m) ==
    [sprint |-> m.sprint, cost |-> m.cost,
     estimated_business_value |-> m.estimated_business_value,
     velocity |-> m.velocity, roi |-> get_roi(m)]

\* the metric whose id, not whose sprint, is the sprint's id
MetricsOf_by_id(s) == Filter(metrics, {i \in DOMAIN metrics : metrics[i].id = s.id})

\* SprintSerializer: metrics is the nested SprintMetric of the sprint, or null
MetricsOf(s) == Filter(metrics, {i \in DOMAIN metrics : metrics[i].sprint = s.id})
SprintRepr(s) ==
    [id |-> s.id, project |-> s.project, start_date |-> s.start_date,
     end_date |-> s.end_date,
     metrics |-> IF MetricsOf(s) = <<>> THEN None
                 ELSE Some(MetricRepr(Head(MetricsOf(s))))]

\* many=True
Many(F(_), rows) == [i \in DOMAIN rows |-> F(rows[i])]

\* validate rejecting equal dates as well
validate_strict(data) ==
    IF Truthy(Get(data, "end_date")) /\ Truthy(Get(data, "start_date"))
       /\ data["end_date"] <= data["start_date"]
    THEN {"end_date"} ELSE {}

\* SprintSerializer.validate: the fields the ValidationError names, empty
\* when the data is returned
validate(data) ==
    IF Truthy(Get(data, "end_date")) /\ Truthy(Get(data, "start_date"))
       /\ data["end_date"] < data["start_date"]
    THEN {"end_date"} ELSE {}

\* the uniqueness of SprintMetric.sprint, checked by the serializer: the
\* sprint of the payload already has a metric other than the one updated
UniqueSprint(data, self) ==
    IF "sprint" \in DOMAIN data
       /\ \E i \in DOMAIN metrics :
              metrics[i].sprint = data["sprint"] /\ metrics[i].id # self
    THEN {"sprint"} ELSE {}

\* serializer.save() on an existing row: the payload's fields overwrite
Apply(row, data) ==
    [f \in DOMAIN row |-> IF f \in DOMAIN data THEN data[f] ELSE row[f]]

Replace(tbl, id, data) ==
    [i \in DOMAIN tbl |-> IF tbl[i].id = id THEN Apply(tbl[i], data) ELSE tbl[i]]

Delete(tbl, gone) == Filter(tbl, {i \in DOMAIN tbl : ~gone[i]})

---------------------------------------------------------------------------
(* Settings: authentication, permissions, pagination, filter backends      *)

PAGE_SIZE == 20

DEFAULT_AUTHENTICATION_CLASSES == <<"SessionAuthentication", "BasicAuthentication">>

\* the WWW-Authenticate header an authentication class offers
authenticate_header(cls) ==
    IF cls = "BasicAuthentication" THEN Some("Basic") ELSE None

\* the status of NotAuthenticated / AuthenticationFailed: 401 when the first
\* authentication class offers a WWW-Authenticate header, else 403
AuthFailureStatus ==
    IF authenticate_header(DEFAULT_AUTHENTICATION_CLASSES[1]) # None
    THEN 401 ELSE 403

Credentials == {"none", "invalid", "valid"}

Views == {"projects", "sprints", "sprint-metrics", "users"}

\* permission_classes with the sprint-metrics viewset left open
permission_classes_open(view) ==
    IF view = "sprint-metrics" THEN "AllowAny" ELSE "IsAuthenticated"

\* permission_classes of the four viewsets
permission_classes(view) == "IsAuthenticated"

\* perform_authentication and check_permissions: an invalid credential
\* fails authentication, IsAuthenticated needs an authenticated user
Refused(r) ==
    \/ r.cred = "invalid"
    \/ permission_classes(r.view) = "IsAuthenticated" /\ r.cred # "valid"

\* UserViewSet.filter_backends
UserFilterBackends == {"SearchFilter", "OrderingFilter"}

\* the methods a ModelViewSet would route
UserMethods_all == {"GET", "POST", "PUT", "PATCH", "DELETE"}

\* the methods ReadOnlyModelViewSet routes for /api/users/ and /api/users/{id}/
UserMethods == {"GET"}

---------------------------------------------------------------------------
(* Requests and responses                                                  *)

NoData == [f \in {} |-> 0]

Request(view, action, method, cred, pk, data, page, filter) ==
    [view |-> view, action |-> action, method |-> method, cred |-> cred,
     pk |-> pk, data |-> data, page |-> page, filter |-> filter]

\* the worker is idle: no request in hand
NoRequest == Request("", "", "", "none", 0, NoData, 1, None)

Idling == req = NoRequest

\* a response without entity data: an error, or 204 No Content
Plain(status, errors) ==
    [status |-> status, errors |-> errors, envelope |-> None, results |-> <<>>]

\* Response(serializer.data): one item, or a bare list of items
Data(status, items) ==
    [status |-> status, errors |-> {}, envelope |-> None, results |-> items]

NumPages(count) ==
    IF count = 0 THEN 1 ELSE (count + PAGE_SIZE - 1) \div PAGE_SIZE

\* PageNumberPagination: the page of PAGE_SIZE items in the
\* {count, next, previous, results} envelope; 404 for a page past the last
paginate(rows, page) ==
    IF page > NumPages(Len(rows)) THEN Plain(404, {})
    ELSE [status |-> 200, errors |-> {},
          envelope |-> Some([count |-> Len(rows),
                             next |-> IF page < NumPages(Len(rows))
                                      THEN Some(page + 1) ELSE None,
                             previous |-> IF page > 1 THEN Some(page - 1)
                                          ELSE None]),
          results |-> SubSeq(rows, (page - 1) * PAGE_SIZE + 1,
                             Min(page * PAGE_SIZE, Len(rows)))]

\* a committed write; the model follows runs of at most MaxWrites of them
Committed == writes < MaxWrites /\ writes' = writes + 1

\* APIView.dispatch: initial() refuses the request before any handler runs,
\* otherwise the handler answers
Dispatch(r, handler) ==
    /\ req' = r
    /\ UNCHANGED inflight
    /\ IF Refused(r)
       THEN resp' = Plain(AuthFailureStatus, {}) /\ UNCHANGED <<db, writes>>
       ELSE handler

Pages == 1 .. MaxPage
Dates == 1 .. MaxDate
Roles == {"admin", "member", "viewer"}

---------------------------------------------------------------------------
(* ProjectViewSet                                                          *)

\* ordering = ['-created_at']: newest first
ProjectQueryset == Reverse(projects)

ProjectList ==
    /\ Idling
    /\ \E cred \in Credentials, page \in Pages :
        Dispatch(Request("projects", "list", "GET", cred, 0, NoData, page, None),
                 /\ resp' = paginate(Many(ProjectRepr, ProjectQueryset), page)
                 /\ UNCHANGED <<db, writes>>)

ProjectCreate ==
    /\ Idling
    /\ \E cred \in Credentials :
        Dispatch(Request("projects", "create", "POST", cred, 0, NoData, 1, None),
                 /\ Committed
                 /\ projects' = Append(projects, [id |-> nextId.project])
                 /\ nextId' = [nextId EXCEPT !.project = @ + 1]
                 /\ resp' = Data(201, <<[id |-> nextId.project, sprint_count |-> 0]>>)
                 /\ UNCHANGED <<users, sprints, metrics>>)

ProjectRetrieve ==
    /\ Idling
    /\ \E cred \in Credentials, pk \in 1 .. nextId.project :
        Dispatch(Request("projects", "retrieve", "GET", cred, pk, NoData, 1, None),
                 /\ resp' = IF pk \in Ids(projects)
                            THEN Data(200, <<ProjectRepr(Row(projects, pk))>>)
                            ELSE Plain(404, {})
                 /\ UNCHANGED <<db, writes>>)

\* the metrics stay behind when their sprint goes
MetricGone_kept(sprintIds) == [i \in DOMAIN metrics |-> FALSE]

\* the sprints a project owns and the metrics those sprints own go with it
SprintGone(pk) == [i \in DOMAIN sprints |-> sprints[i].project = pk]
MetricGone(sprintIds) == [i \in DOMAIN metrics |-> metrics[i].sprint \in sprintIds]

ProjectDestroy ==
    /\ Idling
    /\ \E cred \in Credentials, pk \in 1 .. nextId.project :
        Dispatch(Request("projects", "destroy", "DELETE", cred, pk, NoData, 1, None),
                 IF pk \in Ids(projects)
                 THEN /\ Committed
                      /\ projects' = Delete(projects, [i \in DOMAIN projects |-> projects[i].id = pk])
                      /\ sprints' = Delete(sprints, SprintGone(pk))
                      /\ metrics' = Delete(metrics,
                             MetricGone({sprints[i].id : i \in {j \in DOMAIN sprints : SprintGone(pk)[j]}}))
                      /\ resp' = Plain(204, {})
                      /\ UNCHANGED <<users, nextId>>
                 ELSE resp' = Plain(404, {}) /\ UNCHANGED <<db, writes>>)

\* ProjectViewSet.sprints: project.sprints.all(), serialized, not paginated
ProjectSprints ==
    /\ Idling
    /\ \E cred \in Credentials, pk \in 1 .. nextId.project :
        Dispatch(Request("projects", "sprints", "GET", cred, pk, NoData, 1, None),
                 /\ resp' = IF pk \in Ids(projects)
                            THEN Data(200, Many(SprintRepr,
                                     Filter(sprints, {i \in DOMAIN sprints : sprints[i].project = pk})))
                            ELSE Plain(404, {})
                 /\ UNCHANGED <<db, writes>>)

---------------------------------------------------------------------------
(* SprintViewSet                                                           *)

SprintFields == {"project", "start_date", "end_date"}

Restrict(f, ks) == [k \in ks |-> f[k]]

\* payloads that pass the field-level checks: the project exists, the dates
\* are dates. A full payload (POST, PUT) carries every field, a partial one
\* (PATCH) any subset of them.
SprintFull ==
    {[project |-> p, start_date |-> s, end_date |-> e] :
        p \in Ids(projects), s \in Dates, e \in Dates}
SprintPartial == {Restrict(d, ks) : d \in SprintFull, ks \in SUBSET SprintFields}

RECURSIVE InsertByStart(_, _)
InsertByStart(x, s) ==
    IF s = <<>> THEN <<x>>
    ELSE IF Head(s).start_date >= x.start_date
         THEN <<Head(s)>> \o InsertByStart(x, Tail(s))
         ELSE <<x>> \o s

RECURSIVE SortByStartDesc(_)
SortByStartDesc(s) ==
    IF s = <<>> THEN <<>>
    ELSE InsertByStart(s[Len(s)], SortByStartDesc(SubSeq(s, 1, Len(s) - 1)))

\* ordering = ['-start_date']
SprintQueryset == SortByStartDesc(sprints)

\* filterset_fields = ['project']
SprintList ==
    /\ Idling
    /\ \E cred \in Credentials, page \in Pages,
       filter \in {None} \cup {Some(p) : p \in 1 .. nextId.project} :
        Dispatch(Request("sprints", "list", "GET", cred, 0, NoData, page, filter),
                 /\ resp' = IF filter # None /\ The(filter) \notin Ids(projects)
                            THEN Plain(400, {"project"})
                            ELSE paginate(Many(SprintRepr,
                                     Filter(SprintQueryset,
                                            {i \in DOMAIN SprintQueryset :
                                                filter = None
                                                \/ SprintQueryset[i].project = The(filter)})),
                                     page)
                 /\ UNCHANGED <<db, writes>>)

SprintCreate ==
    /\ Idling
    /\ \E cred \in Credentials, data \in SprintFull :
        Dispatch(Request("sprints", "create", "POST", cred, 0, data, 1, None),
                 IF validate(data) # {}
                 THEN resp' = Plain(400, validate(data)) /\ UNCHANGED <<db, writes>>
                 ELSE /\ Committed
                      /\ sprints' = Append(sprints,
                             [id |-> nextId.sprint, project |-> data["project"],
                              start_date |-> data["start_date"],
                              end_date |-> data["end_date"]])
                      /\ nextId' = [nextId EXCEPT !.sprint = @ + 1]
                      /\ resp' = Data(201, <<[id |-> nextId.sprint,
                                              project |-> data["project"],
                                              start_date |-> data["start_date"],
                                              end_date |-> data["end_date"],
                                              metrics |-> None]>>)
                      /\ UNCHANGED <<users, projects, metrics>>)

SprintRetrieve ==
    /\ Idling
    /\ \E cred \in Credentials, pk \in 1 .. nextId.sprint :
        Dispatch(Request("sprints", "retrieve", "GET", cred, pk, NoData, 1, None),
                 /\ resp' = IF pk \in Ids(sprints)
                            THEN Data(200, <<SprintRepr(Row(sprints, pk))>>)
                            ELSE Plain(404, {})
                 /\ UNCHANGED <<db, writes>>)

\* UpdateModelMixin.update / partial_update: get_object, validate, save
SprintWrite(r) ==
    IF r.pk \notin Ids(sprints) THEN resp' = Plain(404, {}) /\ UNCHANGED <<db, writes>>
    ELSE IF validate(r.data) # {}
         THEN resp' = Plain(400, validate(r.data)) /\ UNCHANGED <<db, writes>>
         ELSE /\ Committed
              /\ sprints' = Replace(sprints, r.pk, r.data)
              /\ resp' = Data(200, <<SprintRepr(Apply(Row(sprints, r.pk), r.data))>>)
              /\ UNCHANGED <<users, projects, metrics, nextId>>

SprintUpdate ==
    /\ Idling
    /\ \E cred \in Credentials, pk \in 1 .. nextId.sprint, data \in SprintFull :
        LET r == Request("sprints", "update", "PUT", cred, pk, data, 1, None)
        IN  Dispatch(r, SprintWrite(r))

SprintPartialUpdate ==
    /\ Idling
    /\ \E cred \in Credentials, pk \in 1 .. nextId.sprint, data \in SprintPartial :
        LET r == Request("sprints", "partial_update", "PATCH", cred, pk, data, 1, None)
        IN  Dispatch(r, SprintWrite(r))

SprintDestroy ==
    /\ Idling
    /\ \E cred \in Credentials, pk \in 1 .. nextId.sprint :
        Dispatch(Request("sprints", "destroy", "DELETE", cred, pk, NoData, 1, None),
                 IF pk \in Ids(sprints)
                 THEN /\ Committed
                      /\ sprints' = Delete(sprints, [i \in DOMAIN sprints |-> sprints[i].id = pk])
                      /\ metrics' = Delete(metrics, MetricGone({pk}))
                      /\ resp' = Plain(204, {})
                      /\ UNCHANGED <<users, projects, nextId>>
                 ELSE resp' = Plain(404, {}) /\ UNCHANGED <<db, writes>>)

---------------------------------------------------------------------------
(* SprintMetricViewSet                                                     *)

MetricFields == {"sprint", "cost", "estimated_business_value", "velocity"}

Costs == {0, 1000}
Values == {1500}
Velocities == {20}

MetricFull ==
    {[sprint |-> s, cost |-> c, estimated_business_value |-> v, velocity |-> w] :
        s \in Ids(sprints), c \in Costs, v \in Values, w \in Velocities}
MetricPartial == {Restrict(d, ks) : d \in MetricFull, ks \in SUBSET MetricFields}

\* no ordering declared: the rows as the table yields them
MetricQueryset == metrics

MetricList ==
    /\ Idling
    /\ \E cred \in Credentials, page \in Pages :
        Dispatch(Request("sprint-metrics", "list", "GET", cred, 0, NoData, page, None),
                 /\ resp' = paginate(Many(MetricRepr, MetricQueryset), page)
                 /\ UNCHANGED <<db, writes>>)

MetricCreate ==
    /\ Idling
    /\ \E cred \in Credentials, data \in MetricFull :
        Dispatch(Request("sprint-metrics", "create", "POST", cred, 0, data, 1, None),
                 IF UniqueSprint(data, 0) # {}
                 THEN resp' = Plain(400, UniqueSprint(data, 0)) /\ UNCHANGED <<db, writes>>
                 ELSE /\ Committed
                      /\ metrics' = Append(metrics,
                             [id |-> nextId.metric, sprint |-> data["sprint"],
                              cost |-> data["cost"],
                              estimated_business_value |-> data["estimated_business_value"],
                              velocity |-> data["velocity"]])
                      /\ nextId' = [nextId EXCEPT !.metric = @ + 1]
                      /\ resp' = Data(201, <<MetricRepr(data)>>)
                      /\ UNCHANGED <<users, projects, sprints>>)

MetricRetrieve ==
    /\ Idling
    /\ \E cred \in Credentials, pk \in 1 .. nextId.metric :
        Dispatch(Request("sprint-metrics", "retrieve", "GET", cred, pk, NoData, 1, None),
                 /\ resp' = IF pk \in Ids(metrics)
                            THEN Data(200, <<MetricRepr(Row(metrics, pk))>>)
                            ELSE Plain(404, {})
                 /\ UNCHANGED <<db, writes>>)

MetricWrite(r) ==
    IF r.pk \notin Ids(metrics) THEN resp' = Plain(404, {}) /\ UNCHANGED <<db, writes>>
    ELSE IF UniqueSprint(r.data, r.pk) # {}
         THEN resp' = Plain(400, UniqueSprint(r.data, r.pk)) /\ UNCHANGED <<db, writes>>
         ELSE /\ Committed
              /\ metrics' = Replace(metrics, r.pk, r.data)
              /\ resp' = Data(200, <<MetricRepr(Apply(Row(metrics, r.pk), r.data))>>)
              /\ UNCHANGED <<users, projects, sprints, nextId>>

MetricUpdate ==
    /\ Idling
    /\ \E cred \in Credentials, pk \in 1 .. nextId.metric, data \in MetricFull :
        LET r == Request("sprint-metrics", "update", "PUT", cred, pk, data, 1, None)
        IN  Dispatch(r, MetricWrite(r))

MetricPartialUpdate ==
    /\ Idling
    /\ \E cred \in Credentials, pk \in 1 .. nextId.metric, data \in MetricPartial :
        LET r == Request("sprint-metrics", "partial_update", "PATCH", cred, pk, data, 1, None)
        IN  Dispatch(r, MetricWrite(r))

MetricDestroy ==
    /\ Idling
    /\ \E cred \in Credentials, pk \in 1 .. nextId.metric :
        Dispatch(Request("sprint-metrics", "destroy", "DELETE", cred, pk, NoData, 1, None),
                 IF pk \in Ids(metrics)
                 THEN /\ Committed
                      /\ metrics' = Delete(metrics, [i \in DOMAIN metrics |-> metrics[i].id = pk])
                      /\ resp' = Plain(204, {})
                      /\ UNCHANGED <<users, projects, sprints, nextId>>
                 ELSE resp' = Plain(404, {}) /\ UNCHANGED <<db, writes>>)

\* the row a validated write will save: a new row for a create (its id comes
\* from the sequence when it is inserted), for an update the instance
\* get_object loaded with the payload's fields set
Instance(r) ==
    IF r.action = "create"
    THEN [id |-> 0, sprint |-> r.data["sprint"], cost |-> r.data["cost"],
          estimated_business_value |-> r.data["estimated_business_value"],
          velocity |-> r.data["velocity"]]
    ELSE Apply(Row(metrics, r.pk), r.data)

\* the constraints of the sprint_metrics table: the sprint reference names a
\* stored sprint, and no other row has the same one
Constraints(row) ==
    /\ row.sprint \in Ids(sprints)
    /\ \A i \in DOMAIN metrics :
           metrics[i].id # row.id => metrics[i].sprint # row.sprint

\* serializer.is_valid() of a second worker: a SprintMetric create or PUT
\* that passes authentication, get_object and validation, and has not
\* reached serializer.save() yet. (A PATCH saves the whole instance too: the
\* row it saves is the row of the PUT that carries the merged fields.)
MetricValidate ==
    /\ Idling
    /\ inflight = None
    /\ \E r \in {Request("sprint-metrics", "create", "POST", "valid", 0, data, 1, None) :
                    data \in MetricFull}
               \cup {Request("sprint-metrics", "update", "PUT", "valid", pk, data, 1, None) :
                    pk \in Ids(metrics), data \in MetricFull} :
          /\ UniqueSprint(r.data, r.pk) = {}
          /\ inflight' = Some([request |-> r, instance |-> Instance(r)])
    /\ UNCHANGED <<db, writes, req, resp>>

\* serializer.save() of the second worker: INSERT for a create; for an update
\* UPDATE of the row and, when the row is gone, INSERT of the instance. A
\* statement the table's constraints reject raises IntegrityError, which no
\* handler catches: the transaction is rolled back and the answer is 500;
\* the id a rejected INSERT drew from the sequence is not given back.
MetricSave ==
    /\ Idling
    /\ inflight # None
    /\ LET r == The(inflight).request
           row == IF r.action = "create"
                  THEN [The(inflight).instance EXCEPT !.id = nextId.metric]
                  ELSE The(inflight).instance
       IN  /\ req' = r
           /\ inflight' = None
           /\ IF ~Constraints(row)
              THEN /\ resp' = Plain(500, {})
                   /\ nextId' = IF r.action = "create"
                                THEN [nextId EXCEPT !.metric = @ + 1]
                                ELSE nextId
                   /\ UNCHANGED <<users, projects, sprints, metrics, writes>>
              ELSE /\ Committed
                   /\ metrics' = IF row.id \in Ids(metrics)
                                 THEN [i \in DOMAIN metrics |->
                                          IF metrics[i].id = row.id THEN row
                                          ELSE metrics[i]]
                                 ELSE Append(metrics, row)
                   /\ nextId' = IF r.action = "create"
                                THEN [nextId EXCEPT !.metric = @ + 1]
                                ELSE nextId
                   /\ resp' = Data(IF r.action = "create" THEN 201 ELSE 200,
                                   <<MetricRepr(row)>>)
                   /\ UNCHANGED <<users, projects, sprints>>

\* the comprehension with >= in place of >
high_roi_metrics_ge ==
    Filter(MetricQueryset,
           {i \in DOMAIN MetricQueryset :
               /\ roi(MetricQueryset[i]) # None
               /\ 2 * The(roi(MetricQueryset[i]))[1] >= The(roi(MetricQueryset[i]))[2]})

\* the list comprehension of high_roi: metric.roi is not None and
\* metric.roi > 0.5, over self.get_queryset()
high_roi_metrics ==
    Filter(MetricQueryset,
           {i \in DOMAIN MetricQueryset :
               /\ roi(MetricQueryset[i]) # None
               /\ GreaterThanHalf(The(roi(MetricQueryset[i])))})

\* SprintMetricViewSet.high_roi: serialized, not paginated
HighRoi ==
    /\ Idling
    /\ \E cred \in Credentials :
        Dispatch(Request("sprint-metrics", "high_roi", "GET", cred, 0, NoData, 1, None),
                 /\ resp' = Data(200, Many(MetricRepr, high_roi_metrics))
                 /\ UNCHANGED <<db, writes>>)

---------------------------------------------------------------------------
(* UserViewSet                                                             *)

\* ordering = ['username']: the table is kept in username order
UserQueryset == users

\* filter_queryset: filterset_fields = ['role'] takes effect only through
\* DjangoFilterBackend
UserFiltered(filter) ==
    IF "DjangoFilterBackend" \in UserFilterBackends /\ filter # None
    THEN Filter(UserQueryset, {i \in DOMAIN UserQueryset : UserQueryset[i].role = The(filter)})
    ELSE UserQueryset

UserList ==
    /\ Idling
    /\ \E cred \in Credentials, page \in Pages,
       filter \in {None} \cup {Some(r) : r \in Roles} :
        Dispatch(Request("users", "list", "GET", cred, 0, NoData, page, filter),
                 /\ resp' = paginate(Many(UserRepr, UserFiltered(filter)), page)
                 /\ UNCHANGED <<db, writes>>)

UserRetrieve ==
    /\ Idling
    /\ \E cred \in Credentials, pk \in 1 .. Len(users) + 1 :
        Dispatch(Request("users", "retrieve", "GET", cred, pk, NoData, 1, None),
                 /\ resp' = IF pk \in Ids(users)
                            THEN Data(200, <<UserRepr(Row(users, pk))>>)
                            ELSE Plain(404, {})
                 /\ UNCHANGED <<db, writes>>)

\* POST on the collection, PUT, PATCH and DELETE on an item: routed to a
\* handler only for the methods the viewset provides, 405 otherwise
UserWrite ==
    /\ Idling
    /\ \E cred \in Credentials, method \in {"POST", "PUT", "PATCH", "DELETE"},
       pk \in 0 .. Len(users), role \in Roles :
        /\ (method = "POST") = (pk = 0)
        /\ Dispatch(Request("users", "write", method, cred, pk, [role |-> role], 1, None),
                    IF method \notin UserMethods
                    THEN resp' = Plain(405, {}) /\ UNCHANGED <<db, writes>>
                    ELSE /\ Committed
                         /\ users' = IF method = "POST"
                                     THEN Append(users, [id |-> Len(users) + 1, role |-> role])
                                     ELSE IF method = "DELETE"
                                     THEN Delete(users, [i \in DOMAIN users |-> users[i].id = pk])
                                     ELSE Replace(users, pk, [role |-> role])
                         /\ resp' = Plain(IF method = "POST" THEN 201
                                          ELSE IF method = "DELETE" THEN 204 ELSE 200, {})
                         /\ UNCHANGED <<projects, sprints, metrics, nextId>>)

---------------------------------------------------------------------------
(* The API as a state machine                                              *)

Init ==
    /\ users = <<[id |-> 1, role |-> "admin"], [id |-> 2, role |-> "member"]>>
    /\ projects = <<>>
    /\ sprints = <<>>
    /\ metrics = <<>>
    /\ nextId = [project |-> 1, sprint |-> 1, metric |-> 1]
    /\ writes = 0
    /\ req = NoRequest
    /\ resp = Plain(0, {})
    /\ inflight = None

\* the response has gone out; the worker takes the next request
Idle ==
    /\ req # NoRequest
    /\ req' = NoRequest
    /\ resp' = Plain(0, {})
    /\ UNCHANGED <<db, writes, inflight>>

ReadNext ==
    \/ ProjectList
    \/ ProjectRetrieve
    \/ ProjectSprints
    \/ SprintList
    \/ SprintRetrieve
    \/ MetricList
    \/ MetricRetrieve
    \/ HighRoi
    \/ UserList
    \/ UserRetrieve

WriteNext ==
    \/ ProjectCreate
    \/ ProjectDestroy
    \/ SprintCreate
    \/ SprintUpdate
    \/ SprintPartialUpdate
    \/ SprintDestroy
    \/ MetricCreate
    \/ MetricUpdate
    \/ MetricPartialUpdate
    \/ MetricDestroy
    \/ UserWrite

Next == ReadNext \/ WriteNext \/ Idle

Spec == Init /\ [][Next]_vars

---------------------------------------------------------------------------
(* Stored metrics over a range of amounts, read through the API            *)

\* <<cost, estimated_business_value>> in cents: zero cost, the scenarios of
\* tests/test_calculations.py, break-even, gains and losses below the fourth
\* decimal place, quotients around 0.5 and quotients midway between two
\* 4-place values
RoiCases ==
    { <<0, 100000>>, <<0, 0>>,
      <<100000, 150000>>, <<100000, 50000>>, <<100000, 100000>>,
      <<10000, 50000>>, <<98765, 123456>>,
      <<30000, 30001>>, <<30000, 29999>>, <<15000, 15001>>,
      <<30000, 45001>>, <<30000, 45002>>, <<1000, 1600>>,
      <<20000, 20001>>, <<20000, 20003>>, <<3200, 3300>> }

\* a project with k sprints, each with one metric
Loaded(k, amounts) ==
    /\ projects = <<[id |-> 1]>>
    /\ sprints = [i \in 1 .. k |-> [id |-> i, project |-> 1,
                                    start_date |-> 1, end_date |-> 1]]
    /\ metrics = [i \in 1 .. k |->
                     [id |-> i, sprint |-> i, cost |-> amounts[i][1],
                      estimated_business_value |-> amounts[i][2],
                      velocity |-> 20]]
    /\ nextId = [project |-> 2, sprint |-> k + 1, metric |-> k + 1]
    /\ writes = 0
    /\ req = NoRequest
    /\ resp = Plain(0, {})
    /\ inflight = None

InitRoi ==
    /\ users = <<[id |-> 1, role |-> "admin"], [id |-> 2, role |-> "member"]>>
    /\ \E k \in 0 .. MaxRoiRows : \E amounts \in [1 .. k -> RoiCases] :
           Loaded(k, amounts)

SpecRoi == InitRoi /\ [][ReadNext \/ Idle]_vars

\* every table holds k rows
InitPage ==
    \E k \in 1 .. MaxRows :
        /\ users = [i \in 1 .. k |-> [id |-> i, role |-> "member"]]
        /\ Loaded(k, [i \in 1 .. k |-> <<1000, 1600>>])

SpecPage == InitPage /\ [][ReadNext \/ Idle]_vars

---------------------------------------------------------------------------
(* Two projects, each owning a sprint that owns a metric                   *)

\* the rows are there from earlier requests; two more writes are followed

InitOwned ==
    /\ users = <<[id |-> 1, role |-> "admin"], [id |-> 2, role |-> "member"]>>
    /\ projects = <<[id |-> 1], [id |-> 2]>>
    /\ sprints = [i \in 1 .. 2 |-> [id |-> i, project |-> i,
                                    start_date |-> 1, end_date |-> 1]]
    /\ metrics = [i \in 1 .. 2 |->
                     [id |-> i, sprint |-> i, cost |-> 1000,
                      estimated_business_value |-> 1500, velocity |-> 20]]
    /\ nextId = [project |-> 3, sprint |-> 3, metric |-> 3]
    /\ writes = MaxWrites - 2
    /\ req = NoRequest
    /\ resp = Plain(0, {})
    /\ inflight = None

SpecOwned == InitOwned /\ [][Next]_vars

---------------------------------------------------------------------------
(* Two workers on the SprintMetric resource                                *)

\* a project with two sprints and no metric yet
InitWorkers ==
    /\ users = <<[id |-> 1, role |-> "admin"], [id |-> 2, role |-> "member"]>>
    /\ projects = <<[id |-> 1]>>
    /\ sprints = [i \in 1 .. 2 |-> [id |-> i, project |-> 1,
                                    start_date |-> 1, end_date |-> 1]]
    /\ metrics = <<>>
    /\ nextId = [project |-> 2, sprint |-> 3, metric |-> 1]
    /\ writes = 0
    /\ req = NoRequest
    /\ resp = Plain(0, {})
    /\ inflight = None

\* the SprintMetric requests of one worker, the Sprint reads that embed the
\* metrics, and a second worker whose validate and save steps interleave
\* with them
WorkersNext ==
    \/ MetricList
    \/ MetricRetrieve
    \/ MetricCreate
    \/ MetricUpdate
    \/ MetricPartialUpdate
    \/ MetricDestroy
    \/ SprintList
    \/ SprintRetrieve
    \/ ProjectSprints
    \/ SprintDestroy
    \/ MetricValidate
    \/ MetricSave
    \/ Idle

SpecWorkers == InitWorkers /\ [][WorkersNext]_vars

---------------------------------------------------------------------------
(* Properties                                                              *)

Items == {resp.results[i] : i \in DOMAIN resp.results}

Answered == resp.status \in {200, 201}

\* the SprintMetric representations the response carries: the items of a
\* sprint-metrics response, the nested metrics of a Sprint representation
ExposedMetrics ==
    IF Answered /\ req.view = "sprint-metrics" THEN Items
    ELSE IF Answered /\ (req.view = "sprints"
                         \/ (req.view = "projects" /\ req.action = "sprints"))
         THEN UNION {it.metrics : it \in Items}
         ELSE {}

\* C1: every persisted Sprint has end_date >= start_date
C1_EndNotBeforeStart ==
    \A i \in DOMAIN sprints : sprints[i].end_date >= sprints[i].start_date

\* an authenticated Sprint create, PUT or PATCH (of an existing Sprint)
\* whose payload carries both dates
BothDates(r) ==
    /\ r.view = "sprints"
    /\ r.action \in {"create", "update", "partial_update"}
    /\ r.cred = "valid"
    /\ {"start_date", "end_date"} \subseteq DOMAIN r.data
    /\ r.action = "create" \/ r.pk \in Ids(sprints)

\* C2: a Sprint payload with both dates is rejected with a 400 on the field
\* end_date, and nothing is stored, when end_date < start_date; with
\* end_date >= start_date the request succeeds and the Sprint is stored
\* with the dates of the payload
C2_DateCheck ==
    [][BothDates(req') =>
         IF req'.data["end_date"] < req'.data["start_date"]
         THEN /\ resp'.status = 400
              /\ resp'.errors = {"end_date"}
              /\ resp'.results = <<>>
              /\ UNCHANGED db
         ELSE /\ resp'.status = (IF req'.action = "create" THEN 201 ELSE 200)
              /\ Len(resp'.results) = 1
              /\ \E i \in DOMAIN sprints' :
                    /\ sprints'[i].id = resp'.results[1].id
                    /\ sprints'[i].start_date = req'.data["start_date"]
                    /\ sprints'[i].end_date = req'.data["end_date"]
                    /\ resp'.results[1].start_date = req'.data["start_date"]
                    /\ resp'.results[1].end_date = req'.data["end_date"]]_vars

\* a PUT of a stored Sprint with end_date < start_date has been rejected
C2_Witness ==
    /\ req.view = "sprints" /\ req.action = "update" /\ req.cred = "valid"
    /\ req.pk \in Ids(sprints)
    /\ req.data["end_date"] < req.data["start_date"]
    /\ resp.status = 400 /\ resp.errors = {"end_date"}

\* C3: for cost > 0 the serialized roi is a 4-place value nearest to the
\* exact quotient (estimated_business_value - cost) / cost: it differs from
\* the quotient by at most half of 10^-4
C3_RoiRounded ==
    \A m \in ExposedMetrics :
        m.cost > 0 =>
            /\ m.roi # None
            /\ 2 * Abs(Pow10(4) * (m.estimated_business_value - m.cost)
                       - The(m.roi) * m.cost) <= m.cost

\* a response carries the roi of cost 987.65, value 1234.56 (0.25 after
\* rounding, the quotient being 0.249997...) and a negative roi
C3_Witness ==
    /\ \E m \in ExposedMetrics :
          m.cost = 98765 /\ m.estimated_business_value = 123456 /\ m.roi = Some(2500)
    /\ \E m \in ExposedMetrics :
          m.cost = 100000 /\ m.estimated_business_value = 50000 /\ m.roi = Some(0 - 5000)

\* C4: with cost = 0 the roi is absent, in the model's computed property and
\* in every serialized representation
C4_ZeroCostAbsent ==
    /\ \A m \in ExposedMetrics : m.cost = 0 => m.roi = None
    /\ \A i \in DOMAIN metrics :
          metrics[i].cost = 0 => roi(metrics[i]) = None /\ get_roi(metrics[i]) = None

\* a response carries a metric with zero cost and a business value
C4_Witness ==
    \E m \in ExposedMetrics :
        m.cost = 0 /\ m.estimated_business_value > 0 /\ m.roi = None

\* C5 as claimed: with cost # 0 the serialized roi is 0 exactly when
\* estimated_business_value = cost
C5_ZeroIffBreakEven ==
    \A m \in ExposedMetrics :
        m.cost # 0 => (m.roi = Some(0) <=> m.estimated_business_value = m.cost)

\* C5, amended: with cost # 0 the serialized roi is 0 whenever
\* estimated_business_value = cost; when the two differ it is 0 only if
\* they differ by at most cost / 20000, the quotient then rounding to zero;
\* and with cost = 0 the roi is absent, never 0
C5_ZeroOnlyNearBreakEven ==
    \A m \in ExposedMetrics :
        /\ m.cost # 0 /\ m.estimated_business_value = m.cost => m.roi = Some(0)
        /\ m.roi = Some(0) =>
              /\ m.cost # 0
              /\ 2 * Pow10(4) * Abs(m.estimated_business_value - m.cost) <= m.cost

\* one response carries a break-even metric and a metric whose value is one
\* cent above its cost, both with roi 0
C5_Witness ==
    /\ \E m \in ExposedMetrics :
          m.cost # 0 /\ m.estimated_business_value = m.cost /\ m.roi = Some(0)
    /\ \E m \in ExposedMetrics :
          m.cost # 0 /\ m.estimated_business_value # m.cost /\ m.roi = Some(0)

HighRoiAnswered ==
    req.view = "sprint-metrics" /\ req.action = "high_roi" /\ resp.status = 200

\* the stored metrics with a defined roi above 0.5, in the order of the
\* standard list
AboveHalf ==
    Filter(metrics,
           {i \in DOMAIN metrics :
               /\ metrics[i].cost # 0
               /\ 2 * (metrics[i].estimated_business_value - metrics[i].cost)
                      > metrics[i].cost})

\* C6 as claimed: high_roi returns exactly the metrics with a defined roi
\* above 0.5, in list order, and every returned item's serialized roi is
\* above 0.5
C6_SerializedAboveHalf ==
    HighRoiAnswered =>
        /\ Len(resp.results) = Len(AboveHalf)
        /\ \A i \in DOMAIN resp.results :
              /\ resp.results[i].sprint = AboveHalf[i].sprint
              /\ resp.results[i].roi # None
              /\ The(resp.results[i].roi) > 5000

\* C6, amended: high_roi returns exactly the metrics with a defined roi
\* above 0.5, in list order; a returned item's serialized roi, rounded to 4
\* places, is at least 0.5
C6_HighRoiSubset ==
    HighRoiAnswered =>
        /\ Len(resp.results) = Len(AboveHalf)
        /\ \A i \in DOMAIN resp.results :
              /\ resp.results[i].sprint = AboveHalf[i].sprint
              /\ resp.results[i].cost = AboveHalf[i].cost
              /\ resp.results[i].estimated_business_value
                    = AboveHalf[i].estimated_business_value
              /\ resp.results[i].roi # None
              /\ The(resp.results[i].roi) >= 5000

\* high_roi has returned the second of two stored metrics and left out the
\* first, whose roi is exactly 0.5
C6_Witness ==
    /\ HighRoiAnswered
    /\ Len(metrics) = 2
    /\ roi(metrics[1]) = Some(<<50000, 100000>>)
    /\ Len(resp.results) = 1
    /\ resp.results[1].sprint = metrics[2].sprint

\* C7: no step changes the User table, and an authenticated POST, PUT,
\* PATCH or DELETE on /api/users/ is answered 405
C7_UsersReadOnly ==
    [][/\ users' = users
       /\ (req'.view = "users" /\ req'.method # "GET" /\ req'.cred = "valid")
              => resp'.status = 405]_vars

\* an authenticated DELETE of a stored user has been answered 405
C7_Witness ==
    /\ req.view = "users" /\ req.method = "DELETE" /\ req.cred = "valid"
    /\ req.pk \in Ids(users)
    /\ resp.status = 405

\* C8 as claimed: a request without a valid credential is answered 401
C8_Unauthorized401 ==
    (req.view \in Views /\ req.cred # "valid") => resp.status = 401

\* C8, amended: a request to any endpoint with no or an invalid credential
\* is answered 403 (SessionAuthentication, the first authentication class,
\* offers no WWW-Authenticate header), carries no entity data and leaves
\* every table unchanged
C8_Refused403 ==
    [][(req'.view \in Views /\ req'.cred # "valid") =>
          /\ resp'.status = 403
          /\ resp'.results = <<>>
          /\ resp'.envelope = None
          /\ UNCHANGED db]_vars

\* a DELETE of a stored sprint without a credential has been refused
C8_Witness ==
    /\ req.view = "sprints" /\ req.action = "destroy" /\ req.cred = "none"
    /\ req.pk \in Ids(sprints)
    /\ resp.status = 403

\* C9: the user list for ?role=r holds only users whose role is r
C9_RoleFilter ==
    (req.view = "users" /\ req.action = "list" /\ req.filter # None
     /\ resp.status = 200)
        => \A it \in Items : it.role = The(req.filter)

\* C10: a response that lists entities carries at most PAGE_SIZE items
C10_AtMostPageSize ==
    (req.action \in {"list", "sprints", "high_roi"} /\ resp.status = 200)
        => Len(resp.results) <= PAGE_SIZE

\* every Sprint row names a stored Project, every SprintMetric row a stored
\* Sprint
Integrity ==
    /\ \A i \in DOMAIN sprints : sprints[i].project \in Ids(projects)
    /\ \A i \in DOMAIN metrics : metrics[i].sprint \in Ids(sprints)

\* the request just answered deleted a row of the view
Destroyed(view) ==
    /\ req'.view = view
    /\ req'.action = "destroy"
    /\ resp'.status = 204

\* C11: every persisted Sprint references an existing Project and every
\* persisted SprintMetric an existing Sprint; deleting a Project removes it,
\* its Sprints and their SprintMetrics and nothing else; deleting a Sprint
\* removes it and its SprintMetric and nothing else
C11_CascadeDelete ==
    /\ Integrity
    /\ [][/\ Integrity'
          /\ Destroyed("projects") =>
                /\ projects' = Filter(projects,
                       {i \in DOMAIN projects : projects[i].id # req'.pk})
                /\ sprints' = Filter(sprints,
                       {i \in DOMAIN sprints : sprints[i].project # req'.pk})
                /\ metrics' = Filter(metrics,
                       {i \in DOMAIN metrics :
                           \A j \in DOMAIN sprints :
                               sprints[j].id = metrics[i].sprint
                                   => sprints[j].project # req'.pk})
          /\ Destroyed("sprints") =>
                /\ projects' = projects
                /\ sprints' = Filter(sprints,
                       {i \in DOMAIN sprints : sprints[i].id # req'.pk})
                /\ metrics' = Filter(metrics,
                       {i \in DOMAIN metrics : metrics[i].sprint # req'.pk})]_vars

\* a Project that owned a Sprint with a SprintMetric has just been deleted,
\* and the other Project still has its Sprint and SprintMetric
C11_Witness ==
    /\ req.view = "projects"
    /\ req.action = "destroy"
    /\ resp.status = 204
    /\ writes = MaxWrites - 1
    /\ Len(projects) = 1
    /\ Len(sprints) = 1
    /\ Len(metrics) = 1
    /\ sprints[1].project = projects[1].id
    /\ metrics[1].sprint = sprints[1].id

\* an authenticated SprintMetric create, or PUT or PATCH of a stored metric,
\* whose payload names a sprint that another stored metric already has
Duplicating(r) ==
    /\ r.view = "sprint-metrics"
    /\ r.action \in {"create", "update", "partial_update"}
    /\ ~Refused(r)
    /\ r.action = "create" \/ r.pk \in Ids(metrics)
    /\ "sprint" \in DOMAIN r.data
    /\ \E i \in DOMAIN metrics :
           metrics[i].sprint = r.data["sprint"] /\ metrics[i].id # r.pk

\* C12: a request that would give a Sprint a second SprintMetric is answered
\* with a 400/409 validation error and leaves the stored metrics unchanged,
\* also when another worker's validate and insert steps interleave with it
C12_DuplicateRejected ==
    [][Duplicating(req') =>
          /\ resp'.status \in {400, 409}
          /\ metrics' = metrics]_vars

\* the stored SprintMetrics of the sprint with this id, serialized
EmbeddedFor(id) ==
    {MetricRepr(metrics[i]) : i \in {j \in DOMAIN metrics : metrics[j].sprint = id}}

\* C13: no two stored SprintMetrics have the same Sprint, and a Sprint's
\* representation embeds the Sprint's metric when there is one and null
\* when there is none
C13_OneMetricPerSprint ==
    /\ \A i, j \in DOMAIN metrics :
           metrics[i].sprint = metrics[j].sprint => i = j
    /\ Answered /\ (req.view = "sprints"
                     \/ (req.view = "projects" /\ req.action = "sprints"))
          => \A it \in Items : it.metrics = EmbeddedFor(it.id)

\* after one metric was stored and a second worker's insert for the same
\* sprint was turned down by the table, a Sprint list shows one sprint with
\* its metric embedded and one with null
C13_Witness ==
    /\ Answered
    /\ req.view = "sprints"
    /\ \E it \in Items : it.metrics # None
    /\ \E it \in Items : it.metrics = None
    /\ Len(metrics) = 1
    /\ writes = 1
    /\ nextId.metric = 3

====
